---------------------------- MODULE Spec2Model ----------------------------
(***************************************************************************)
(* Model of src/main.py: a character retriever (one HTTP GET), a Redis     *)
(* backed cache (ping on construction, save as JSON text, load), a report  *)
(* engine over the fetched records (status distribution, species filter,   *)
(* name search) and the executor that runs them in sequence.               *)
(*                                                                         *)
(* Python text is modelled as a tuple of one-character strings, so that    *)
(* str.lower(), the `in` substring test and the JSON encoding act on       *)
(* characters.  Python values that cross a function boundary are tagged    *)
(* records: PyNone, PyStr(chars), PyList(tuple of dicts).  A dict (one     *)
(* character record) is a function from key text to value text.            *)
(***************************************************************************)
EXTENDS Integers, Sequences, FiniteSets, TLC

(***************************************************************************)
(* Python values                                                           *)
(***************************************************************************)
PyNone == [t |-> "None"]

PyStr(s) == [t |-> "str", v |-> s]

PyList(l) == [t |-> "list", v |-> l]

\* bool(x) as the conditional expression in load_data evaluates it
Truthy(x) ==
    IF x.t = "None" THEN FALSE
    ELSE Len(x.v) > 0

\* the dict keys the program reads: character['name'], ['status'], ['species']
NAME == <<"n", "a", "m", "e">>

STATUS == <<"s", "t", "a", "t", "u", "s">>

SPECIES == <<"s", "p", "e", "c", "i", "e", "s">>

\* insertion order of the keys of one fetched record
KeyOrder == <<NAME, STATUS, SPECIES>>

Character(n, st, sp) == (NAME :> n) @@ (STATUS :> st) @@ (SPECIES :> sp)

(***************************************************************************)
(* str.lower() and the substring test                                      *)
(***************************************************************************)
UPPERCASE == <<"A", "B", "C", "D", "E", "F", "G", "H", "I", "J", "K", "L", "M",
               "N", "O", "P", "Q", "R", "S", "T", "U", "V", "W", "X", "Y", "Z">>

LOWERCASE == <<"a", "b", "c", "d", "e", "f", "g", "h", "i", "j", "k", "l", "m",
               "n", "o", "p", "q", "r", "s", "t", "u", "v", "w", "x", "y", "z">>

LowerChar(c) ==
    IF \E i \in 1..Len(UPPERCASE) : UPPERCASE[i] = c
    THEN LOWERCASE[CHOOSE i \in 1..Len(UPPERCASE) : UPPERCASE[i] = c]
    ELSE c

lower(s) == [i \in 1..Len(s) |-> LowerChar(s[i])]

\* Python's `a in b` on two str
contains(b, a) ==
    \E i \in 0..(Len(b) - Len(a)) : \A j \in 1..Len(a) : b[i + j] = a[j]

\* [x for x in data if keep]: keep[i] is the condition evaluated on data[i]
RECURSIVE Comprehension(_, _, _)
Comprehension(data, keep, i) ==
    IF i > Len(data) THEN <<>>
    ELSE (IF keep[i] THEN <<data[i]>> ELSE <<>>)
         \o Comprehension(data, keep, i + 1)


(***************************************************************************)
(* json.dumps / json.loads on the values the program stores: None, or a    *)
(* list of dicts whose keys and values are text.  The encoder writes the   *)
(* default separators ", " and ": " and escapes the quote and the          *)
(* backslash; the decoder scans the text character by character.           *)
(***************************************************************************)
QUOTE == "\""

BACKSLASH == "\\"

\* an encoder that escapes the quote only
RECURSIVE EscapeQuoteOnly(_, _)
EscapeQuoteOnly(s, i) ==
    IF i > Len(s) THEN <<>>
    ELSE (IF s[i] = QUOTE THEN <<BACKSLASH, s[i]>> ELSE <<s[i]>>)
         \o EscapeQuoteOnly(s, i + 1)

RECURSIVE EscapeFrom(_, _)
EscapeFrom(s, i) ==
    IF i > Len(s) THEN <<>>
    ELSE (IF s[i] = QUOTE \/ s[i] = BACKSLASH THEN <<BACKSLASH, s[i]>> ELSE <<s[i]>>)
         \o EscapeFrom(s, i + 1)

EncodeString(s) == <<QUOTE>> \o EscapeFrom(s, 1) \o <<QUOTE>>

RECURSIVE EncodeItems(_, _, _)
EncodeItems(d, keys, i) ==
    IF i > Len(keys) THEN <<>>
    ELSE (IF i > 1 THEN <<",", " ">> ELSE <<>>)
         \o EncodeString(keys[i]) \o <<":", " ">> \o EncodeString(d[keys[i]])
         \o EncodeItems(d, keys, i + 1)

\* the keys of d in insertion order
KeysOf(d) == SelectSeq(KeyOrder, LAMBDA k : k \in DOMAIN d)

EncodeDict(d) == <<"{">> \o EncodeItems(d, KeysOf(d), 1) \o <<"}">>

RECURSIVE EncodeElements(_, _)
EncodeElements(l, i) ==
    IF i > Len(l) THEN <<>>
    ELSE (IF i > 1 THEN <<",", " ">> ELSE <<>>)
         \o EncodeDict(l[i]) \o EncodeElements(l, i + 1)

EncodeList(l) == <<"[">> \o EncodeElements(l, 1) \o <<"]">>

json_dumps(value) ==
    IF value.t = "None" THEN <<"n", "u", "l", "l">>
    ELSE EncodeList(value.v)

\* decoder results: [ok, val, pos] with pos the index after what was read
Bad == [ok |-> FALSE, val |-> <<>>, pos |-> 0]

At(s, i) == IF i >= 1 /\ i <= Len(s) THEN s[i] ELSE "EOF"

RECURSIVE SkipWs(_, _)
SkipWs(s, i) == IF At(s, i) = " " THEN SkipWs(s, i + 1) ELSE i

\* i is the index after the opening quote
RECURSIVE ScanString(_, _, _)
ScanString(s, i, acc) ==
    IF i > Len(s) THEN Bad
    ELSE IF s[i] = QUOTE THEN [ok |-> TRUE, val |-> acc, pos |-> i + 1]
    ELSE IF s[i] = BACKSLASH
         THEN IF At(s, i + 1) = QUOTE \/ At(s, i + 1) = BACKSLASH
              THEN ScanString(s, i + 2, Append(acc, s[i + 1]))
              ELSE Bad
    ELSE ScanString(s, i + 1, Append(acc, s[i]))

ParseString(s, i) == IF At(s, i) = QUOTE THEN ScanString(s, i + 1, <<>>) ELSE Bad

\* i is the index of the next key; d holds the pairs read so far
RECURSIVE ParseMembers(_, _, _)
ParseMembers(s, i, d) ==
    LET k == ParseString(s, i)
        c == SkipWs(s, k.pos)
        v == ParseString(s, SkipWs(s, c + 1))
        e == SkipWs(s, v.pos)
        d2 == (k.val :> v.val) @@ d
    IN  IF ~k.ok \/ At(s, c) # ":" THEN Bad
        ELSE IF ~v.ok THEN Bad
        ELSE IF At(s, e) = "}" THEN [ok |-> TRUE, val |-> d2, pos |-> e + 1]
        ELSE IF At(s, e) = "," THEN ParseMembers(s, SkipWs(s, e + 1), d2)
        ELSE Bad

EmptyDict == [k \in {} |-> <<>>]

ParseObject(s, i) ==
    IF At(s, i) # "{" THEN Bad
    ELSE IF At(s, SkipWs(s, i + 1)) = "}"
         THEN [ok |-> TRUE, val |-> EmptyDict, pos |-> SkipWs(s, i + 1) + 1]
    ELSE ParseMembers(s, SkipWs(s, i + 1), EmptyDict)

\* i is the index of the next element; l holds the elements read so far
RECURSIVE ParseElements(_, _, _)
ParseElements(s, i, l) ==
    LET o == ParseObject(s, i)
        e == SkipWs(s, o.pos)
    IN  IF ~o.ok THEN Bad
        ELSE IF At(s, e) = "]" THEN [ok |-> TRUE, val |-> Append(l, o.val), pos |-> e + 1]
        ELSE IF At(s, e) = "," THEN ParseElements(s, SkipWs(s, e + 1), Append(l, o.val))
        ELSE Bad

ParseArray(s, i) ==
    IF At(s, SkipWs(s, i + 1)) = "]"
    THEN [ok |-> TRUE, val |-> PyList(<<>>), pos |-> SkipWs(s, i + 1) + 1]
    ELSE LET r == ParseElements(s, SkipWs(s, i + 1), <<>>)
         IN  IF r.ok THEN [ok |-> TRUE, val |-> PyList(r.val), pos |-> r.pos] ELSE Bad

ParseValue(s, i) ==
    IF At(s, i) = "[" THEN ParseArray(s, i)
    ELSE IF i >= 1 /\ i + 3 <= Len(s) /\ SubSeq(s, i, i + 3) = <<"n", "u", "l", "l">>
         THEN [ok |-> TRUE, val |-> PyNone, pos |-> i + 4]
    ELSE Bad

\* [raised, value]: json.loads raises JSONDecodeError on text that is no document
json_loads(s) ==
    LET r == ParseValue(s, SkipWs(s, 1))
    IN  IF r.ok /\ SkipWs(s, r.pos) = Len(s) + 1
        THEN [raised |-> FALSE, error |-> "", value |-> r.val]
        ELSE [raised |-> TRUE, error |-> "JSONDecodeError", value |-> PyNone]

(***************************************************************************)
(* Results of a call: [raised, error, value].                              *)
(***************************************************************************)
Return(v) == [raised |-> FALSE, error |-> [type |-> "", status_code |-> 0], value |-> v]

Raise(type, code) == [raised |-> TRUE, error |-> [type |-> type, status_code |-> code], value |-> PyNone]

(***************************************************************************)
(* APICharacterRetriever                                                   *)
(***************************************************************************)
\* requests.Response.raise_for_status: HTTPError for 4xx and 5xx, else returns None
raise_for_status(response) ==
    IF response.status_code >= 400 /\ response.status_code < 600
    THEN Raise("HTTPError", response.status_code)
    ELSE Return(PyNone)

\* response is [status_code, results]: results is response.json()['results']
get_characters(response) ==
    IF response.status_code = 200
    THEN Return(response.results)
    ELSE raise_for_status(response)

(***************************************************************************)
(* RedisDataHandler over the store, a function from key to PyNone (no      *)
(* entry) or PyStr(text).                                                  *)
(***************************************************************************)
DIAGNOSTIC == [fmt |-> "Unable to connect to Redis: {error}", args |-> <<>>]

\* ping that reports the failure and goes on
ping_no_exit(up) ==
    IF up THEN [exit |-> FALSE, code |-> 0, lines |-> <<>>]
    ELSE [exit |-> FALSE, code |-> 0, lines |-> <<DIAGNOSTIC>>]

\* up: whether redis_client.ping() gets its answer.  [exit, code, lines]
ping(up) ==
    IF up THEN [exit |-> FALSE, code |-> 0, lines |-> <<>>]
    ELSE [exit |-> TRUE, code |-> 1, lines |-> <<DIAGNOSTIC>>]

\* a SET that keeps an entry already there
save_data_keep(st, key, value) ==
    IF st[key].t = "None" THEN [st EXCEPT ![key] = PyStr(json_dumps(value))] ELSE st

\* redis_client.set(key, json.dumps(value)): the store after the command
save_data(st, key, value) == [st EXCEPT ![key] = PyStr(json_dumps(value))]

\* data = redis_client.get(key); json.loads(data) if data else None
load_data(st, key) ==
    LET data == st[key]
    IN  IF Truthy(data) THEN json_loads(data.v) ELSE Return(PyNone)

(***************************************************************************)
(* CharacterDataProcessor                                                  *)
(***************************************************************************)
\* a counter that starts a new key at zero
RECURSIVE CounterFromZero(_, _, _)
CounterFromZero(items, i, c) ==
    IF i > Len(items) THEN c
    ELSE IF \E j \in 1..Len(c.keys) : c.keys[j] = items[i]
         THEN CounterFromZero(items, i + 1,
                  [c EXCEPT !.count = [k \in DOMAIN c.count |->
                                          IF k = items[i] THEN c.count[k] + 1 ELSE c.count[k]]])
         ELSE CounterFromZero(items, i + 1,
                  [keys |-> Append(c.keys, items[i]),
                   count |-> (items[i] :> 0) @@ c.count])

\* collections.Counter over an iterable: keys in order of first occurrence
RECURSIVE CounterFrom(_, _, _)
CounterFrom(items, i, c) ==
    IF i > Len(items) THEN c
    ELSE IF \E j \in 1..Len(c.keys) : c.keys[j] = items[i]
         THEN CounterFrom(items, i + 1,
                  [c EXCEPT !.count = [k \in DOMAIN c.count |->
                                          IF k = items[i] THEN c.count[k] + 1 ELSE c.count[k]]])
         ELSE CounterFrom(items, i + 1,
                  [keys |-> Append(c.keys, items[i]),
                   count |-> (items[i] :> 1) @@ c.count])

Counter(items) == CounterFrom(items, 1, [keys |-> <<>>, count |-> [k \in {} |-> 0]])

NoChart == [drawn |-> FALSE, bars |-> <<>>]

\* iterating self.data when it is None raises TypeError
\* the chart: one bar per key, its height the count, its label int(height)
display_status_distribution(data) ==
    IF data.t # "list"
    THEN Raise("TypeError", 0) @@ [status_distribution |-> Counter(<<>>), chart |-> NoChart]
    ELSE LET status_distribution == Counter([i \in 1..Len(data.v) |-> data.v[i][STATUS]])
             bars == [i \in 1..Len(status_distribution.keys) |->
                        [x |-> status_distribution.keys[i],
                         height |-> status_distribution.count[status_distribution.keys[i]],
                         text |-> status_distribution.count[status_distribution.keys[i]]]]
         IN  Return(PyNone) @@ [status_distribution |-> status_distribution,
                                chart |-> [drawn |-> TRUE, bars |-> bars]]

\* a filter that lower-cases the record's species only
show_characters_by_species_raw(data, target_species) ==
    IF data.t # "list" THEN Raise("TypeError", 0) @@ [matches |-> <<>>, lines |-> <<>>]
    ELSE LET species_matches ==
                 Comprehension(data.v,
                     [i \in 1..Len(data.v) |-> lower(data.v[i][SPECIES]) = target_species], 1)
         IN  Return(PyNone) @@
             [matches |-> species_matches,
              lines |-> <<[fmt |-> "\nList of '{target_species}' characters:",
                           args |-> <<target_species>>]>>
                        \o [i \in 1..Len(species_matches) |->
                              [fmt |-> "- {name} ({status})",
                               args |-> <<species_matches[i][NAME], species_matches[i][STATUS]>>]]]

\* [raised, error, value, matches, lines]
show_characters_by_species(data, target_species) ==
    IF data.t # "list" THEN Raise("TypeError", 0) @@ [matches |-> <<>>, lines |-> <<>>]
    ELSE LET species_matches ==
                 Comprehension(data.v,
                     [i \in 1..Len(data.v) |->
                         lower(data.v[i][SPECIES]) = lower(target_species)], 1)
         IN  Return(PyNone) @@
             [matches |-> species_matches,
              lines |-> <<[fmt |-> "\nList of '{target_species}' characters:",
                           args |-> <<target_species>>]>>
                        \o [i \in 1..Len(species_matches) |->
                              [fmt |-> "- {name} ({status})",
                               args |-> <<species_matches[i][NAME], species_matches[i][STATUS]>>]]]

\* a search that prints the header before it looks at the matches
find_characters_by_name_header(data, search_term) ==
    IF data.t # "list" THEN Raise("TypeError", 0) @@ [matches |-> <<>>, lines |-> <<>>]
    ELSE LET name_matches ==
                 Comprehension(data.v,
                     [i \in 1..Len(data.v) |->
                         contains(lower(data.v[i][NAME]), lower(search_term))], 1)
         IN  Return(PyNone) @@
             [matches |-> name_matches,
              lines |-> <<[fmt |-> "\nCharacters containing '{search_term}' in their name:",
                           args |-> <<search_term>>]>>
                        \o [i \in 1..Len(name_matches) |->
                              [fmt |-> "- {name} ({species})",
                               args |-> <<name_matches[i][NAME], name_matches[i][SPECIES]>>]]]

\* [raised, error, value, matches, lines]
find_characters_by_name(data, search_term) ==
    IF data.t # "list" THEN Raise("TypeError", 0) @@ [matches |-> <<>>, lines |-> <<>>]
    ELSE LET name_matches ==
                 Comprehension(data.v,
                     [i \in 1..Len(data.v) |->
                         contains(lower(data.v[i][NAME]), lower(search_term))], 1)
         IN  Return(PyNone) @@
             [matches |-> name_matches,
              lines |-> IF Len(name_matches) = 0
                        THEN <<[fmt |-> "No characters found with '{search_term}' in their name.",
                                args |-> <<search_term>>]>>
                        ELSE <<[fmt |-> "\nCharacters containing '{search_term}' in their name:",
                                args |-> <<search_term>>]>>
                             \o [i \in 1..Len(name_matches) |->
                                   [fmt |-> "- {name} ({species})",
                                    args |-> <<name_matches[i][NAME], name_matches[i][SPECIES]>>]]]

HUMAN == <<"H", "u", "m", "a", "n">>

MORTY == <<"M", "o", "r", "t", "y">>

\* the three reports in order; the first exception ends the call
process_data(data) ==
    LET d == display_status_distribution(data)
        s == show_characters_by_species(data, HUMAN)
        f == find_characters_by_name(data, MORTY)
    IN  IF d.raised THEN [raised |-> TRUE, error |-> d.error, chart |-> NoChart, lines |-> <<>>]
        ELSE [raised |-> FALSE, error |-> d.error, chart |-> d.chart, lines |-> s.lines \o f.lines]

(***************************************************************************)
(* Inputs                                                                  *)
(***************************************************************************)
\* longest results list a response carries
MaxFetched == 2

\* longest record list handed to a CharacterDataProcessor built directly
MaxRecords == 3

RICK == <<"R", "i", "c", "k">>

ALIVE == <<"A", "l", "i", "v", "e">>

DEAD == <<"D", "e", "a", "d">>

ALIEN == <<"A", "l", "i", "e", "n">>

MortySmith == Character(MORTY \o <<" ">> \o <<"S", "m", "i", "t", "h">>, ALIVE, HUMAN)

RickSanchez == Character(RICK \o <<" ">> \o <<"S", "a", "n", "c", "h", "e", "z">>, ALIVE, HUMAN)

\* a name that needs both JSON escapes
Quoted == Character(<<"T", QUOTE, "\\", "x">>, DEAD, ALIEN)

FetchRecords == {MortySmith, Quoted}

SeqsUpTo(S, n) == UNION {[1..m -> S] : m \in 0..n}

ResultPool == {PyList(l) : l \in SeqsUpTo(FetchRecords, MaxFetched)}

SampleResults == PyList(<<MortySmith, Quoted>>)

StatusCodes == {200, 201, 304, 404, 500}

\* every body with status 200; one body with each other status
Responses ==
    {[status_code |-> 200, results |-> l] : l \in ResultPool}
    \cup {[status_code |-> c, results |-> SampleResults] : c \in StatusCodes \ {200}}

NoResponse == [status_code |-> 0, results |-> PyNone]

Keys == {"rickandmorty:characters", "other:key"}

(***************************************************************************)
(* State                                                                   *)
(***************************************************************************)
VARIABLES
    pc,             \* position in WorkflowExecutor.execute, or the object in use
    redis_key,      \* WorkflowExecutor.redis_key of the run
    response,       \* what requests.get returned in the run
    fetched,        \* the result of get_characters in the run
    character_data, \* the local of execute
    error,          \* the exception that ended the run
    store,          \* the Redis server: key -> PyNone or PyStr(text)
    store_at_start, \* the store when the run began
    saved,          \* key -> the value whose save_data last completed
    gets,           \* GET commands the run issued
    stages,         \* the stages the run began, with their outcome
    stdout,         \* lines printed by the run
    exit_status,    \* -1 while running
    processor,      \* the CharacterDataProcessor
    chart,          \* the image written by the run
    call            \* the last direct call of a cache or processor method

vars == <<pc, redis_key, response, fetched, character_data, error, store,
          store_at_start, saved, gets, stages, stdout, exit_status, processor,
          chart, call>>

NoError == [type |-> "", status_code |-> 0]

Unsaved == [t |-> "unsaved"]

NoProcessor == [constructed |-> FALSE, data |-> PyNone]

NoCall == [op |-> "none"]

EmptyStore == [k \in Keys |-> PyNone]

\* the per-run state at the start of execute
RunStart(k) ==
    /\ pc' = "fetch"
    /\ redis_key' = k
    /\ response' = NoResponse
    /\ fetched' = Return(PyNone)
    /\ character_data' = PyNone
    /\ error' = NoError
    /\ gets' = 0
    /\ stages' = <<>>
    /\ stdout' = <<>>
    /\ exit_status' = -1
    /\ processor' = NoProcessor
    /\ chart' = NoChart

Init ==
    /\ pc = "fetch"
    /\ redis_key \in Keys
    /\ response = NoResponse
    /\ fetched = Return(PyNone)
    /\ character_data = PyNone
    /\ error = NoError
    /\ store = EmptyStore
    /\ store_at_start = EmptyStore
    /\ saved = [k \in Keys |-> Unsaved]
    /\ gets = 0
    /\ stages = <<>>
    /\ stdout = <<>>
    /\ exit_status = -1
    /\ processor = NoProcessor
    /\ chart = NoChart
    /\ call = NoCall

Stage(name, outcome) == [stage |-> name, outcome |-> outcome]

(***************************************************************************)
(* WorkflowExecutor.execute, one action per stage                          *)
(***************************************************************************)
\* character_data = character_retriever.get_characters()
Fetch ==
    /\ pc = "fetch"
    /\ \E r \in Responses :
         LET g == get_characters(r)
         IN  /\ response' = r
             /\ fetched' = g
             /\ stages' = Append(stages, Stage("fetch", IF g.raised THEN "raised" ELSE "ok"))
             /\ IF g.raised
                THEN /\ pc' = "failed"
                     /\ error' = g.error
                     /\ exit_status' = 1
                     /\ UNCHANGED character_data
                ELSE /\ pc' = "connect"
                     /\ character_data' = g.value
                     /\ UNCHANGED <<error, exit_status>>
    /\ UNCHANGED <<redis_key, store, store_at_start, saved, gets, stdout, processor, chart, call>>

\* requests.get itself raises: no response at all
FetchNoResponse ==
    /\ pc = "fetch"
    /\ fetched' = Raise("ConnectionError", 0)
    /\ stages' = Append(stages, Stage("fetch", "raised"))
    /\ pc' = "failed"
    /\ error' = [type |-> "ConnectionError", status_code |-> 0]
    /\ exit_status' = 1
    /\ UNCHANGED <<redis_key, response, character_data, store, store_at_start, saved,
                   gets, stdout, processor, chart, call>>

\* redis_handler = RedisDataHandler(): __init__ calls ping
Connect ==
    /\ pc = "connect"
    /\ \E up \in BOOLEAN :
         LET p == ping(up)
         IN  /\ stdout' = stdout \o p.lines
             /\ stages' = Append(stages, Stage("connect", IF up THEN "ok" ELSE "unreachable"))
             /\ IF p.exit
                THEN pc' = "exited" /\ exit_status' = p.code
                ELSE pc' = "save" /\ UNCHANGED exit_status
    /\ UNCHANGED <<redis_key, response, fetched, character_data, error, store,
                   store_at_start, saved, gets, processor, chart, call>>

\* a save whose exception is swallowed
SaveSwallowed ==
    /\ pc = "save"
    /\ \E ok \in BOOLEAN :
         /\ stages' = Append(stages, Stage("save", IF ok THEN "ok" ELSE "raised"))
         /\ pc' = "report"
         /\ IF ok
            THEN /\ store' = save_data(store, redis_key, character_data)
                 /\ saved' = [saved EXCEPT ![redis_key] = fetched.value]
            ELSE UNCHANGED <<store, saved>>
    /\ UNCHANGED <<redis_key, response, fetched, character_data, store_at_start, gets,
                   stdout, processor, chart, call, error, exit_status>>

\* redis_handler.save_data(self.redis_key, character_data); the SET may raise
Save ==
    /\ pc = "save"
    /\ \E ok \in BOOLEAN :
         /\ stages' = Append(stages, Stage("save", IF ok THEN "ok" ELSE "raised"))
         /\ IF ok
            THEN /\ store' = save_data(store, redis_key, character_data)
                 /\ saved' = [saved EXCEPT ![redis_key] = fetched.value]
                 /\ pc' = "report"
                 /\ UNCHANGED <<error, exit_status>>
            ELSE /\ pc' = "failed"
                 /\ error' = [type |-> "ConnectionError", status_code |-> 0]
                 /\ exit_status' = 1
                 /\ UNCHANGED <<store, saved>>
    /\ UNCHANGED <<redis_key, response, fetched, character_data, store_at_start, gets,
                   stdout, processor, chart, call>>

\* a report over the value read back from the cache
ReportFromCache ==
    /\ pc = "report"
    /\ LET data == load_data(store, redis_key).value
           r == process_data(data)
       IN  /\ processor' = [constructed |-> TRUE, data |-> data]
           /\ gets' = gets + 1
           /\ stages' = Append(stages, Stage("report", IF r.raised THEN "raised" ELSE "ok"))
           /\ stdout' = stdout \o r.lines
           /\ chart' = r.chart
           /\ IF r.raised
              THEN pc' = "failed" /\ error' = r.error /\ exit_status' = 1
              ELSE pc' = "done" /\ exit_status' = 0 /\ UNCHANGED error
    /\ UNCHANGED <<redis_key, response, fetched, character_data, store, store_at_start,
                   saved, call>>

\* data_processor = CharacterDataProcessor(character_data); data_processor.process_data()
Report ==
    /\ pc = "report"
    /\ LET data == character_data
           r == process_data(data)
       IN  /\ processor' = [constructed |-> TRUE, data |-> data]
           /\ stages' = Append(stages, Stage("report", IF r.raised THEN "raised" ELSE "ok"))
           /\ stdout' = stdout \o r.lines
           /\ chart' = r.chart
           /\ IF r.raised
              THEN pc' = "failed" /\ error' = r.error /\ exit_status' = 1
              ELSE pc' = "done" /\ exit_status' = 0 /\ UNCHANGED error
    /\ UNCHANGED <<redis_key, response, fetched, character_data, store, store_at_start,
                   saved, gets, call>>

\* the program is run again: WorkflowExecutor(api_endpoint, redis_key).execute()
NewRun ==
    /\ pc \in {"done", "failed", "exited"}
    /\ \E k \in Keys : RunStart(k)
    /\ store_at_start' = store
    /\ UNCHANGED <<store, saved, call>>

Next == Fetch \/ FetchNoResponse \/ Connect \/ Save \/ Report \/ NewRun

Spec == Init /\ [][Next]_vars

(***************************************************************************)
(* RedisDataHandler used directly: save_data and load_data in any order,   *)
(* on a connected handler, with the values execute can pass to save_data.  *)
(***************************************************************************)
SaveValues == {get_characters(r).value : r \in {q \in Responses : ~get_characters(q).raised}}

CacheInit ==
    /\ pc = "cache"
    /\ redis_key = "rickandmorty:characters"
    /\ response = NoResponse
    /\ fetched = Return(PyNone)
    /\ character_data = PyNone
    /\ error = NoError
    /\ store = EmptyStore
    /\ store_at_start = EmptyStore
    /\ saved = [k \in Keys |-> Unsaved]
    /\ gets = 0
    /\ stages = <<>>
    /\ stdout = <<>>
    /\ exit_status = -1
    /\ processor = NoProcessor
    /\ chart = NoChart
    /\ call = NoCall

CacheSave ==
    /\ pc = "cache"
    /\ \E k \in Keys, v \in SaveValues :
         /\ store' = save_data(store, k, v)
         /\ saved' = [saved EXCEPT ![k] = v]
         /\ call' = [op |-> "save", key |-> k, value |-> v, result |-> Return(PyNone)]
    /\ UNCHANGED <<pc, redis_key, response, fetched, character_data, error, store_at_start,
                   gets, stages, stdout, exit_status, processor, chart>>

CacheLoad ==
    /\ pc = "cache"
    /\ \E k \in Keys :
         call' = [op |-> "load", key |-> k, value |-> PyNone, result |-> load_data(store, k)]
    /\ UNCHANGED <<pc, redis_key, response, fetched, character_data, error, store,
                   store_at_start, saved, gets, stages, stdout, exit_status, processor, chart>>

CacheNext == CacheSave \/ CacheLoad

CacheSpec == CacheInit /\ [][CacheNext]_vars

(***************************************************************************)
(* CharacterDataProcessor used directly: a processor over any record list, *)
(* its methods called with any target and any search term.                 *)
(***************************************************************************)
Birdperson == Character(<<"B", "i", "r", "d">>, DEAD, ALIEN)

MortyJr == Character(<<"m", "o", "R", "T", "Y", " ", "J", "r">>, <<"a", "l", "i", "v", "e">>,
                     <<"h", "u", "m", "a", "n">>)

Summer == Character(<<"S", "u", "m", "m", "e", "r">>, <<"u", "n", "k", "n", "o", "w", "n">>,
                    <<"H", "U", "M", "A", "N", "O", "I", "D">>)

ReportRecords == {MortySmith, RickSanchez, Birdperson, MortyJr, Summer}

ProcessorData == {PyList(l) : l \in SeqsUpTo(ReportRecords, MaxRecords)}

Targets == {HUMAN, <<"h", "u", "m", "a", "n">>, <<"H", "U", "M", "A", "N">>, ALIEN,
            <<"H", "u", "m">>, <<>>}

Terms == {MORTY, <<"m", "o", "r", "t", "y">>, <<"R", "T">>, <<"z", "z", "z">>,
          <<"y", " ", "s">>, <<>>}

ReportInit ==
    /\ pc = "processor"
    /\ redis_key = "rickandmorty:characters"
    /\ response = NoResponse
    /\ fetched = Return(PyNone)
    /\ character_data = PyNone
    /\ error = NoError
    /\ store = EmptyStore
    /\ store_at_start = EmptyStore
    /\ saved = [k \in Keys |-> Unsaved]
    /\ gets = 0
    /\ stages = <<>>
    /\ stdout = <<>>
    /\ exit_status = -1
    /\ \E d \in ProcessorData : processor = [constructed |-> TRUE, data |-> d]
    /\ chart = NoChart
    /\ call = NoCall

DisplayStatusDistribution ==
    /\ pc = "processor"
    /\ LET r == display_status_distribution(processor.data)
       IN  /\ call' = [op |-> "status", arg |-> <<>>, result |-> r]
           /\ chart' = r.chart
           /\ stdout' = <<>>
    /\ UNCHANGED <<pc, redis_key, response, fetched, character_data, error, store,
                   store_at_start, saved, gets, stages, exit_status, processor>>

ShowCharactersBySpecies ==
    /\ pc = "processor"
    /\ \E target_species \in Targets :
         LET r == show_characters_by_species(processor.data, target_species)
         IN  /\ call' = [op |-> "species", arg |-> target_species, result |-> r]
             /\ stdout' = r.lines
    /\ UNCHANGED <<pc, redis_key, response, fetched, character_data, error, store,
                   store_at_start, saved, gets, stages, exit_status, processor, chart>>

FindCharactersByName ==
    /\ pc = "processor"
    /\ \E search_term \in Terms :
         LET r == find_characters_by_name(processor.data, search_term)
         IN  /\ call' = [op |-> "name", arg |-> search_term, result |-> r]
             /\ stdout' = r.lines
    /\ UNCHANGED <<pc, redis_key, response, fetched, character_data, error, store,
                   store_at_start, saved, gets, stages, exit_status, processor, chart>>

ProcessData ==
    /\ pc = "processor"
    /\ LET r == process_data(processor.data)
       IN  /\ call' = [op |-> "process", arg |-> <<>>, result |-> r]
           /\ chart' = r.chart
           /\ stdout' = r.lines
    /\ UNCHANGED <<pc, redis_key, response, fetched, character_data, error, store,
                   store_at_start, saved, gets, stages, exit_status, processor>>

ReportNext ==
    DisplayStatusDistribution \/ ShowCharactersBySpecies \/ FindCharactersByName \/ ProcessData

ReportSpec == ReportInit /\ [][ReportNext]_vars

(***************************************************************************)
(* Properties of execute (checked under Spec)                              *)
(***************************************************************************)
StageOrder == <<"fetch", "connect", "save", "report">>

Began(name) == \E i \in 1..Len(stages) : stages[i].stage = name

Outcome(name) ==
    IF Began(name)
    THEN stages[CHOOSE i \in 1..Len(stages) : stages[i].stage = name].outcome
    ELSE "none"

\* C1: the stages of a run are a prefix of fetch, connect, save, report, each
\* begun at most once and only after every earlier stage ended without error;
\* a run whose fetch raises touches neither the store nor the report, and a run
\* whose save raises builds no processor, prints no report and writes no chart.
C1_LinearPipeline ==
    /\ Len(stages) <= Len(StageOrder)
    /\ \A i \in 1..Len(stages) : stages[i].stage = StageOrder[i]
    /\ \A i \in 1..(Len(stages) - 1) : stages[i].outcome = "ok"
    /\ Outcome("fetch") = "raised" =>
           /\ Len(stages) = 1
           /\ store = store_at_start
           /\ stdout = <<>>
           /\ ~processor.constructed
           /\ chart = NoChart
    /\ Outcome("save") = "raised" =>
           /\ Len(stages) = 3
           /\ store = store_at_start
           /\ stdout = <<>>
           /\ ~processor.constructed
           /\ chart = NoChart
    /\ processor.constructed => Outcome("save") = "ok"

C1_Witness ==
    /\ pc = "failed"
    /\ Outcome("save") = "raised"
    /\ character_data.t = "list"
    /\ Len(character_data.v) = 2

\* C2: when the ping of the cache constructor finds the store unreachable the
\* run ends there with exit status 1 and the diagnostic as its only output: no
\* save, no change of the store, no processor, no chart.
C2_UnreachableExits ==
    Outcome("connect") = "unreachable" =>
        /\ pc = "exited"
        /\ exit_status = 1
        /\ stdout = <<DIAGNOSTIC>>
        /\ Len(stages) = 2
        /\ store = store_at_start
        /\ ~processor.constructed
        /\ chart = NoChart

C2_Witness ==
    /\ pc = "exited"
    /\ Outcome("connect") = "unreachable"
    /\ character_data.t = "list"
    /\ Len(character_data.v) = 2
    /\ store[redis_key].t = "str"

IsSuccess(status_code) == status_code >= 200 /\ status_code < 300

\* C3 as claimed: a 2xx response makes get_characters return the results, and
\* any other response makes it raise HTTPError with the status code, returning
\* nothing.
C3_FetchAllOrNothing ==
    response.status_code # 0 =>
        IF IsSuccess(response.status_code)
        THEN ~fetched.raised /\ fetched.value = response.results
        ELSE /\ fetched.raised
             /\ fetched.error = [type |-> "HTTPError", status_code |-> response.status_code]

\* C5: under every key the store holds exactly the JSON text of the value fetched
\* by the last run whose save completed under that key (nothing if there was
\* none); a run that ends before its save leaves the store as it found it, and a
\* run that saves what the entry already held leaves it unchanged.
C5_LastSaveWins ==
    /\ \A k \in Keys :
         IF saved[k].t = "unsaved" THEN store[k] = PyNone
         ELSE store[k] = PyStr(json_dumps(saved[k]))
    /\ Outcome("save") # "ok" => store = store_at_start
    /\ Outcome("save") = "ok" =>
         /\ saved[redis_key] = fetched.value
         /\ \A k \in Keys \ {redis_key} : store[k] = store_at_start[k]
         /\ store_at_start[redis_key] = PyStr(json_dumps(fetched.value)) => store = store_at_start

C5_Witness ==
    /\ Outcome("save") = "ok"
    /\ store_at_start[redis_key].t = "str"
    /\ store_at_start[redis_key] # store[redis_key]
    /\ fetched.value.t = "list"
    /\ Len(fetched.value.v) = 1

\* C6: the processor is built over exactly the value get_characters returned in
\* the run, which the save leaves untouched, and the run issues no GET.
C6_ReportUsesFetched ==
    /\ gets = 0
    /\ Began("connect") => character_data = fetched.value
    /\ processor.constructed =>
         /\ ~fetched.raised
         /\ processor.data = fetched.value

C6_Witness ==
    /\ pc = "done"
    /\ processor.constructed
    /\ processor.data = PyList(<<Quoted, MortySmith>>)
    /\ store[redis_key].t = "str"

(***************************************************************************)
(* Properties of the cache (checked under CacheSpec)                       *)
(***************************************************************************)
Fields == {NAME, STATUS, SPECIES}

\* C4: a load returns, for a key whose last save stored a record list V (the
\* empty list included), a list of the same length whose records carry, position
\* by position, the same name, status and species as V.
C4_RoundTrip ==
    (call.op = "load" /\ saved[call.key].t = "list") =>
        LET V == saved[call.key].v
            L == call.result
        IN  /\ ~L.raised
            /\ L.value.t = "list"
            /\ Len(L.value.v) = Len(V)
            /\ \A i \in 1..Len(V) :
                 /\ DOMAIN L.value.v[i] = DOMAIN V[i]
                 /\ \A f \in Fields : L.value.v[i][f] = V[i][f]

C4_Witness ==
    /\ call.op = "load"
    /\ saved[call.key] = PyList(<<Quoted, MortySmith>>)
    /\ call.result.value.t = "list"
    /\ Len(call.result.value.v) = 2

\* C10 as claimed: load returns None without raising when the key has no entry,
\* the deserialization of the entry when it has one, and None only when the key
\* has no entry.
C10_AbsentOnlyWhenAbsent ==
    call.op = "load" =>
        LET entry == store[call.key]
            L == call.result
        IN  /\ entry.t = "None" => (~L.raised /\ L.value = PyNone)
            /\ entry.t = "str" => L = json_loads(entry.v)
            /\ (~L.raised /\ L.value = PyNone) => entry.t = "None"

(***************************************************************************)
(* Properties of the reports (checked under ReportSpec)                    *)
(***************************************************************************)
\* two characters that are the same letter up to case
SameLetter(a, b) ==
    \/ a = b
    \/ \E i \in 1..Len(UPPERCASE) : {a, b} = {UPPERCASE[i], LOWERCASE[i]}

EqualIgnoringCase(s, t) ==
    /\ Len(s) = Len(t)
    /\ \A i \in 1..Len(s) : SameLetter(s[i], t[i])

ContainsIgnoringCase(s, t) ==
    \E off \in 0..(Len(s) - Len(t)) : \A j \in 1..Len(t) : SameLetter(s[off + j], t[j])

RECURSIVE SumCounts(_, _, _)
SumCounts(c, keys, i) ==
    IF i > Len(keys) THEN 0 ELSE c[keys[i]] + SumCounts(c, keys, i + 1)

\* C7: the status distribution has one key per distinct status of the records
\* and no other, each counted as often as it occurs, the counts summing to the
\* number of records.
C7_StatusDistribution ==
    (call.op = "status" /\ processor.data.t = "list") =>
        LET R == processor.data.v
            sd == call.result.status_distribution
            present == {R[i][STATUS] : i \in 1..Len(R)}
        IN  /\ ~call.result.raised
            /\ \A i, j \in 1..Len(sd.keys) : i # j => sd.keys[i] # sd.keys[j]
            /\ {sd.keys[i] : i \in 1..Len(sd.keys)} = present
            /\ DOMAIN sd.count = present
            /\ \A k \in present : sd.count[k] = Cardinality({i \in 1..Len(R) : R[i][STATUS] = k})
            /\ SumCounts(sd.count, sd.keys, 1) = Len(R)

C7_Witness ==
    /\ call.op = "status"
    /\ processor.data = PyList(<<MortySmith, MortyJr, RickSanchez>>)
    /\ call.result.status_distribution.keys = <<ALIVE, <<"a", "l", "i", "v", "e">>>>
    /\ call.result.status_distribution.count[ALIVE] = 2

Fixture == PyList(<<MortySmith, Birdperson, RickSanchez>>)

\* C8: the species filter selects, in input order, exactly the records whose
\* species equals the target up to case; the targets human, HUMAN and Human
\* select the same records, and over two Human records and one Alien record the
\* target Human selects the two Human records.
C8_SpeciesFilter ==
    (call.op = "species" /\ processor.data.t = "list") =>
        LET R == processor.data.v
        IN  /\ ~call.result.raised
            /\ call.result.matches =
                   SelectSeq(R, LAMBDA c : EqualIgnoringCase(c[SPECIES], call.arg))
            /\ EqualIgnoringCase(call.arg, HUMAN) =>
                   call.result.matches = show_characters_by_species(processor.data, HUMAN).matches
            /\ (processor.data = Fixture /\ call.arg = HUMAN) =>
                   call.result.matches = <<MortySmith, RickSanchez>>

C8_Witness ==
    /\ call.op = "species"
    /\ call.arg = <<"H", "U", "M", "A", "N">>
    /\ processor.data = PyList(<<Summer, MortyJr, MortySmith>>)
    /\ call.result.matches = <<MortyJr, MortySmith>>

NotFound(term) ==
    [fmt |-> "No characters found with '{search_term}' in their name.", args |-> <<term>>]

\* C9: the name search selects, in input order, exactly the records whose name
\* contains the term up to case; with no match it prints the not-found message
\* alone and does not raise, and with matches it prints a header and one line
\* per match and no not-found message.
C9_NameSearch ==
    (call.op = "name" /\ processor.data.t = "list") =>
        LET R == processor.data.v
            m == call.result.matches
            out == call.result.lines
        IN  /\ ~call.result.raised
            /\ m = SelectSeq(R, LAMBDA c : ContainsIgnoringCase(c[NAME], call.arg))
            /\ stdout = out
            /\ Len(m) = 0 => out = <<NotFound(call.arg)>>
            /\ Len(m) > 0 =>
                 /\ Len(out) = Len(m) + 1
                 /\ out[1].fmt = "\nCharacters containing '{search_term}' in their name:"
                 /\ out[1].args = <<call.arg>>
                 /\ \A i \in 1..Len(m) :
                      /\ out[i + 1].fmt = "- {name} ({species})"
                      /\ out[i + 1].args = <<m[i][NAME], m[i][SPECIES]>>
                 /\ \A i \in 1..Len(out) : out[i] # NotFound(call.arg)

C9_Witness ==
    /\ call.op = "name"
    /\ call.arg = <<"z", "z", "z">>
    /\ Len(processor.data.v) = 2
    /\ stdout = <<NotFound(call.arg)>>

=============================================================================
